---- MODULE Spec2Model ----
(***************************************************************************)
(* One render pass of dashboard/app.py: the Streamlit script that loads    *)
(* covid_2020_2022.csv, enriches it with a continent column, applies the   *)
(* sidebar filters and computes the KPI, timeline, map, narrative and      *)
(* ranking views.  Streamlit executes the script top to bottom in a fresh  *)
(* namespace; every section of the script is one action.                   *)
(*                                                                         *)
(* Numbers.  Case counts are integers.  The three ratios the script        *)
(* computes in floating point (fatality_rate, growth_rate, rebound_ratio)  *)
(* and the rolling mean are kept as exact fractions <<num, den>> with      *)
(* den > 0; <<0, 0>> is pandas' NaN.  Coordinates are degrees * 10^4.      *)
(* A timestamp is day * TicksPerDay + time of day.                         *)
(***************************************************************************)
EXTENDS Integers, Sequences, FiniteSets, TLC

VARIABLES
  pc,                  \* the section of the script that runs next
  fileExists,          \* whether covid_2020_2022.csv exists
  csvHasActive,        \* whether the file has an "active" column
  csv,                 \* the rows of the file, in file order
  df,                  \* load_data's result
  selected_continents, selected_countries, start_date, end_date,
  df_filtered, df_last_day,
  kpi_confirmed, kpi_deaths, fatality_rate,
  timeline,
  country_totals,      \* [defined, rows]: the name is bound only by line 151
  map_data,
  growth_rate, current_week_avg, prev_week_avg, rebound_ratio, verdict,
  top_active,
  out,                 \* the elements written to the page, in order
  exception            \* the uncaught exception that ended the run, or "none"

vars == <<pc, fileExists, csvHasActive, csv, df, selected_continents,
          selected_countries, start_date, end_date, df_filtered, df_last_day,
          kpi_confirmed, kpi_deaths, fatality_rate, timeline, country_totals,
          map_data, growth_rate, current_week_avg, prev_week_avg,
          rebound_ratio, verdict, top_active, out,
          exception>>

-----------------------------------------------------------------------------
(* Bounds of the model *)

TicksPerDay == 2       \* time-of-day resolution of a timestamp
MaxDay == 1            \* the range tables span days 0..MaxDay
MaxRows == 1           \* rows of a range table after its first
MaxGeoRows == 2        \* rows of a geographic table
MaxVal == 2            \* largest count in a value table
MaxDelta == 6          \* largest weekly change of a long timeline
ExtraPoints == 0       \* a long timeline has up to MinPoints + ExtraPoints dates
ExtraCountries == 1    \* a ranking table has up to TopN + ExtraCountries countries
MaxSelected == 1       \* options picked in one multiselect
MaxTrim == 1           \* days the date range is moved in from min_date, max_date

(* Constants of the program *)

TopN == 10             \* .head(10)
Window == 7            \* rolling(window=7)
MinPoints == 14        \* len(timeline) >= 14
PrevOffset == 8        \* .iloc[-8]
NaN == 99999999        \* pandas' missing value in a coordinate column

-----------------------------------------------------------------------------
(* Sequences and fractions *)

RECURSIVE SumSeq(_)
SumSeq(s) == IF s = <<>> THEN 0 ELSE Head(s) + SumSeq(Tail(s))

Column(t, f) == [i \in 1..Len(t) |-> t[i][f]]

Range(s) == {s[i] : i \in 1..Len(s)}

SetMin(S) == CHOOSE m \in S : \A x \in S : m <= x

SetMax(S) == CHOOSE m \in S : \A x \in S : m >= x

\* the elements of a finite set of integers in ascending order
RECURSIVE Ascending(_)
Ascending(S) ==
  IF S = {} THEN <<>> ELSE <<SetMin(S)>> \o Ascending(S \ {SetMin(S)})

NaNFrac == <<0, 0>>
IsNaN(q) == q[2] = 0
FracGT(a, b) == a[1] * b[2] > b[1] * a[2]       \* a > b, denominators > 0
FracEq(a, b) == a[1] * b[2] = b[1] * a[2]
\* q > 0 as pandas/numpy evaluate it: a comparison with NaN is False
Positive(q) == ~IsNaN(q) /\ q[1] > 0
\* a / b for b > 0
FracDiv(a, b) == <<a[1] * b[2], a[2] * b[1]>>

-----------------------------------------------------------------------------
(* get_continent, lines 12-36 *)

Raise == "raise"

corrections(country_name) ==
  CASE country_name = "US" -> "United States"
    [] country_name = "Korea, South" -> "South Korea"
    [] country_name = "Taiwan*" -> "Taiwan"
    [] country_name = "Burma" -> "Myanmar"
    [] country_name = "Congo (Kinshasa)" -> "Congo"
    [] country_name = "Congo (Brazzaville)" -> "Congo"
    [] country_name = "Cote d'Ivoire" -> "Ivory Coast"
    [] country_name = "West Bank and Gaza" -> "Israel"
    [] country_name = "Russia" -> "Russian Federation"
    [] country_name = "Vietnam" -> "Viet Nam"
    [] country_name = "Laos" -> "Lao People's Democratic Republic"
    [] country_name = "Syria" -> "Syrian Arab Republic"
    [] country_name = "Iran" -> "Iran, Islamic Republic of"
    [] country_name = "Tanzania" -> "Tanzania, United Republic of"
    [] country_name = "Venezuela" -> "Venezuela, Bolivarian Republic of"
    [] country_name = "Bolivia" -> "Bolivia, Plurinational State of"
    [] country_name = "Brunei" -> "Brunei Darussalam"
    [] country_name = "United Kingdom" -> "United Kingdom"
    [] country_name = "France" -> "France"
    [] OTHER -> country_name

\* pycountry_convert's name resolver on the names the model uses: it raises
\* KeyError on a name it does not know ("US" itself is not known to it).
country_name_to_country_alpha2(name) ==
  CASE name = "United States" -> "US"
    [] name = "France" -> "FR"
    [] name = "United Kingdom" -> "GB"
    [] name = "Denmark" -> "DK"
    [] name = "Netherlands" -> "NL"
    [] name = "Chile" -> "CL"
    [] name = "Canada" -> "CA"
    [] name = "Japan" -> "JP"
    [] name = "India" -> "IN"
    [] name = "Australia" -> "AU"
    [] name = "Nigeria" -> "NG"
    [] name = "Brazil" -> "BR"
    [] name = "Peru" -> "PE"
    [] name = "Russian Federation" -> "RU"
    [] name = "Timor-Leste" -> "TL"
    [] name = "Antarctica" -> "AQ"
    [] OTHER -> Raise

\* pycountry_convert's continent resolver: a two-letter continent code, among
\* them "AN" (Antarctica), or KeyError on a code missing from its table.
country_alpha2_to_continent_code(alpha2) ==
  CASE alpha2 \in {"US", "CA"} -> "NA"
    [] alpha2 \in {"CL", "BR", "PE"} -> "SA"
    [] alpha2 \in {"JP", "IN"} -> "AS"
    [] alpha2 = "AU" -> "OC"
    [] alpha2 \in {"FR", "GB", "DK", "NL", "RU"} -> "EU"
    [] alpha2 = "NG" -> "AF"
    [] alpha2 = "AQ" -> "AN"
    [] OTHER -> Raise

\* a lookup that lets an unlisted continent code through as the label
continents_get_passthrough(continent_code, default) ==
  CASE continent_code = "NA" -> "North America"
    [] continent_code = "SA" -> "South America"
    [] continent_code = "AS" -> "Asia"
    [] continent_code = "OC" -> "Oceania"
    [] continent_code = "EU" -> "Europe"
    [] continent_code = "AF" -> "Africa"
    [] OTHER -> continent_code

continents_get(continent_code, default) ==
  CASE continent_code = "NA" -> "North America"
    [] continent_code = "SA" -> "South America"
    [] continent_code = "AS" -> "Asia"
    [] continent_code = "OC" -> "Oceania"
    [] continent_code = "EU" -> "Europe"
    [] continent_code = "AF" -> "Africa"
    [] OTHER -> default

get_continent(country_name) ==
  LET name == corrections(country_name)
      country_alpha2 == country_name_to_country_alpha2(name)
      continent_code ==
        IF country_alpha2 = Raise THEN Raise
        ELSE country_alpha2_to_continent_code(country_alpha2)
  IN IF continent_code = Raise
     THEN "Others"                                  \* except: return "Others"
     ELSE continents_get(continent_code, "Others")

ContinentLabels ==
  {"North America", "South America", "Asia", "Oceania", "Europe", "Africa",
   "Others"}

-----------------------------------------------------------------------------
(* COUNTRY_COORDS, lines 38-45 *)

InCountryCoords(c) ==
  c \in {"France", "United Kingdom", "Denmark", "Netherlands", "US",
         "United States"}

COUNTRY_COORDS(c) ==
  CASE c = "France" -> [lat |-> 462276, long |-> 22137]
    [] c = "United Kingdom" -> [lat |-> 553781, long |-> -34360]
    [] c = "Denmark" -> [lat |-> 562639, long |-> 95018]
    [] c = "Netherlands" -> [lat |-> 521326, long |-> 52913]
    [] c = "US" -> [lat |-> 370902, long |-> -957129]
    [] c = "United States" -> [lat |-> 370902, long |-> -957129]

-----------------------------------------------------------------------------
(* load_data, lines 47-61 *)

unique(column) == Range(column)

continent_column(t, i) ==
  LET unique_countries == unique(Column(t, "country_region"))
      continent_map == [c \in unique_countries |-> get_continent(c)]
  IN continent_map[t[i].country_region]

load_data(rows, hasActive) ==
  [i \in 1..Len(rows) |->
    [country_region |-> rows[i].country_region,
     file_date |-> rows[i].file_date,
     confirmed |-> rows[i].confirmed,
     deaths |-> rows[i].deaths,
     recovered |-> rows[i].recovered,
     active |-> IF hasActive THEN rows[i].active
                ELSE rows[i].confirmed - rows[i].deaths - rows[i].recovered,
     lat |-> rows[i].lat,
     long_ |-> rows[i].long_,
     Continent |-> continent_column(rows, i)]]

-----------------------------------------------------------------------------
(* Filters and filtering, lines 73-100 *)

\* Series.dt.date: the calendar day of a timestamp
dt_date(file_date) == file_date \div TicksPerDay

all_continents(t) == unique(Column(t, "Continent"))

filtered_countries(t, continents) ==
  IF continents # {}
  THEN {t[i].country_region : i \in {j \in 1..Len(t) : t[j].Continent \in continents}}
  ELSE unique(Column(t, "country_region"))

min_date(t) == dt_date(SetMin(Range(Column(t, "file_date"))))
max_date(t) == dt_date(SetMax(Range(Column(t, "file_date"))))

\* a date mask that compares timestamps with the day's midnight
mask_date_midnight(t, start, end) ==
  SelectSeq(t, LAMBDA r : r.file_date >= start * TicksPerDay
                          /\ r.file_date <= end * TicksPerDay)

mask_date(t, start, end) ==
  SelectSeq(t, LAMBDA r : dt_date(r.file_date) >= start
                          /\ dt_date(r.file_date) <= end)

isin_continents(t, continents) ==
  SelectSeq(t, LAMBDA r : r.Continent \in continents)

isin_countries(t, countries) ==
  SelectSeq(t, LAMBDA r : r.country_region \in countries)

filter_frame(t, continents, countries, start, end) ==
  LET by_date == mask_date(t, start, end)
      by_continent == IF continents # {} THEN isin_continents(by_date, continents)
                      ELSE by_date
  IN IF countries # {} THEN isin_countries(by_continent, countries)
     ELSE by_continent

-----------------------------------------------------------------------------
(* KPIs, lines 102-113 *)

\* the KPI base taken over the whole selected range
last_day_whole_range(t, end) == t

last_day(t, end) == SelectSeq(t, LAMBDA r : dt_date(r.file_date) = end)

kpi_sum(t, column) == IF t # <<>> THEN SumSeq(Column(t, column)) ELSE 0

fatality(deaths, confirmed) ==
  IF confirmed > 0 THEN <<deaths * 100, confirmed>> ELSE <<0, 1>>

-----------------------------------------------------------------------------
(* Timeline, line 126: groupby("file_date").sum().reset_index(); groupby    *)
(* sorts the group keys, so the rows are in ascending file_date order.      *)

group_sum(t, d, column) ==
  SumSeq(Column(SelectSeq(t, LAMBDA r : r.file_date = d), column))

group_keys(t) == Ascending(Range(Column(t, "file_date")))

groupby_file_date_sum(t) ==
  LET keys == group_keys(t)
  IN [i \in 1..Len(keys) |->
       [file_date |-> keys[i],
        confirmed |-> group_sum(t, keys[i], "confirmed"),
        deaths |-> group_sum(t, keys[i], "deaths"),
        recovered |-> group_sum(t, keys[i], "recovered"),
        active |-> group_sum(t, keys[i], "active")]]

-----------------------------------------------------------------------------
(* Map, lines 150-184 *)

country_rows(t, c) == SelectSeq(t, LAMBDA r : r.country_region = c)

\* GroupBy "first": the first non-null entry of the group, NaN if there is none
RECURSIVE first_valid(_)
first_valid(s) ==
  IF s = <<>> THEN NaN
  ELSE IF Head(s) # NaN THEN Head(s) ELSE first_valid(Tail(s))

groupby_country_agg(t) ==
  {[country_region |-> c,
    confirmed |-> SumSeq(Column(country_rows(t, c), "confirmed")),
    lat |-> first_valid(Column(country_rows(t, c), "lat")),
    long_ |-> first_valid(Column(country_rows(t, c), "long_"))]
   : c \in unique(Column(t, "country_region"))}

\* sort_values("confirmed", ascending=False).iloc[0]: a row of the largest
\* confirmed; the default sort is not stable, so any of the tied rows
best_rows(t, c) ==
  LET country_data == country_rows(t, c)
  IN {r \in Range(country_data) :
        \A q \in Range(country_data) : r.confirmed >= q.confirmed}

\* fix_coords that looks at the row's own coordinates before the override
fix_coords_row_first(row, best_row) ==
  IF row.lat # NaN /\ row.long_ # NaN
  THEN [row EXCEPT !.lat = best_row.lat, !.long_ = best_row.long_]
  ELSE IF InCountryCoords(row.country_region)
  THEN [row EXCEPT !.lat = COUNTRY_COORDS(row.country_region).lat,
                   !.long_ = COUNTRY_COORDS(row.country_region).long]
  ELSE [row EXCEPT !.lat = best_row.lat, !.long_ = best_row.long_]

\* the except branch of lines 167-168 is never taken: country_data holds the
\* rows that formed the group, so iloc[0] exists
fix_coords(row, best_row) ==
  IF InCountryCoords(row.country_region)
  THEN [row EXCEPT !.lat = COUNTRY_COORDS(row.country_region).lat,
                   !.long_ = COUNTRY_COORDS(row.country_region).long]
  ELSE [row EXCEPT !.lat = best_row.lat, !.long_ = best_row.long_]

\* country_totals.apply(fix_coords, axis=1): every table the apply can give
RECURSIVE apply_fix_coords(_, _)
apply_fix_coords(totals, t) ==
  IF totals = {} THEN {{}}
  ELSE LET row == CHOOSE r \in totals : TRUE
       IN {rest \cup {fix_coords(row, b)} :
             rest \in apply_fix_coords(totals \ {row}, t),
             b \in best_rows(t, row.country_region)}

dropna(totals) == {r \in totals : r.lat # NaN /\ r.long_ # NaN}

-----------------------------------------------------------------------------
(* Narrative, lines 192-231 *)

growth(start_val, end_val) ==
  IF start_val > 0 THEN <<(end_val - start_val) * 100, start_val>>
  ELSE IF end_val = 0 THEN <<0, 1>> ELSE <<100, 1>>

\* .diff().fillna(0)
new_cases(confirmed) ==
  [i \in 1..Len(confirmed) |->
    IF i = 1 THEN 0 ELSE confirmed[i] - confirmed[i - 1]]

\* .rolling(window=7).mean(): NaN until the window is full
rolling_mean(s) ==
  [i \in 1..Len(s) |->
    IF i < Window THEN NaNFrac
    ELSE <<SumSeq(SubSeq(s, i - Window + 1, i)), Window>>]

\* s.iloc[-k]
iloc_neg(s, k) == s[Len(s) - k + 1]

enough_points(t) == Len(t) >= MinPoints

ratio(current, prev) ==
  IF Positive(prev) THEN FracDiv(current, prev) ELSE <<0, 1>>

classify(r) ==
  IF FracGT(r, <<12, 10>>) THEN "alert"
  ELSE IF FracGT(r, <<1, 1>>) THEN "upward"
  ELSE "stable"

-----------------------------------------------------------------------------
(* Ranking, lines 234-249 *)

\* groupby("country_region")["active"].sum()
group_active_sum(t, c) == SumSeq(Column(country_rows(t, c), "active"))

\* groupby("country_region")["active"].max()
group_active(t, c) == SetMax(Range(Column(country_rows(t, c), "active")))

groupby_country_active(t) ==
  {[country_region |-> c, active |-> group_active(t, c)]
   : c \in unique(Column(t, "country_region"))}

\* sort_values(ascending=False): every listing of s in non-increasing order
\* of active (the default sort is not stable: tied entries come in any order)
RECURSIVE sort_values_desc(_)
sort_values_desc(s) ==
  IF s = {} THEN {<<>>}
  ELSE UNION {{<<m>> \o rest : rest \in sort_values_desc(s \ {m})}
              : m \in {x \in s : \A y \in s : x.active >= y.active}}

head(s, n) == SubSeq(s, 1, IF Len(s) < n THEN Len(s) ELSE n)

-----------------------------------------------------------------------------
(* The files the run may find.  The file is never empty: it is the output  *)
(* of the generation stage.  Counts are non-negative integers.             *)

Pow2(i) == 2 ^ (i - 1)

Row(c, ts, conf, dth, rec, act, la, lo) ==
  [country_region |-> c, file_date |-> ts, confirmed |-> conf, deaths |-> dth,
   recovered |-> rec, active |-> act, lat |-> la, long_ |-> lo]

Midnight(day) == day * TicksPerDay
TimesOfDay == {0, TicksPerDay - 1}

\* Range tables: a row of US at midnight of day 0, then up to MaxRows rows,
\* each of US or Chile at any time of days 0..MaxDay; row i counts 2^(i-1)
\* confirmed, so a sum names the rows in it.
RangeKeys == {"US", "Chile"} \X (0..MaxDay) \X TimesOfDay
RangeRow(i, c, ts) ==
  Row(c, ts, Pow2(i), i - 1, 0, Pow2(i) - (i - 1), 10 * i, 10 * i + 1)
RangeTables ==
  UNION {{<<RangeRow(1, "US", Midnight(0))>> \o
          [i \in 1..n |->
            RangeRow(i + 1, k[i][1], Midnight(k[i][2]) + k[i][3])]
          : k \in [1..n -> RangeKeys]} : n \in 0..MaxRows}

\* Value tables: US on day 0, US and Chile on day 1, counts 0..MaxVal.
ValuePairs == {<<c, d>> \in (0..MaxVal) \X (0..MaxVal) : d \in {0, c}}
ValueTables ==
  {<<Row("US", Midnight(0), v[1][1], v[1][2], 0, v[1][1] - v[1][2], 10, 11),
     Row("US", Midnight(1), v[2][1], v[2][2], 0, v[2][1] - v[2][2], 20, 21),
     Row("Chile", Midnight(1), v[3][1], v[3][2], 0, v[3][1] - v[3][2], 30, 31)>>
   : v \in [1..3 -> ValuePairs]}

\* Geographic tables: up to MaxGeoRows rows of one day; a row has both
\* coordinates, no latitude, or neither.
GeoKeys == {"US", "Chile"} \X {1, 2} \X {"both", "no_lat", "none"}
GeoTables ==
  UNION {{[i \in 1..n |->
            Row(k[i][1], Midnight(0), k[i][2], 0, 0, k[i][2],
                IF k[i][3] = "both" THEN 10 * i ELSE NaN,
                IF k[i][3] = "none" THEN NaN ELSE 10 * i + 1)]
          : k \in [1..n -> GeoKeys]} : n \in 1..MaxGeoRows}

\* Long timelines: Chile on n consecutive days, confirmed a step function
\* whose two weekly changes are p and q; US may report one day later.
Deltas == {-MaxDelta, 1 - MaxDelta, 0, 1, MaxDelta - 1, MaxDelta}
LongLengths == (MinPoints - 1)..(MinPoints + ExtraPoints)
LongLevel(i, n, p, q) ==
  2 * MaxDelta + (IF i > 3 THEN p ELSE 0) + (IF i > n - 4 THEN q ELSE 0)
LongTables ==
  {[i \in 1..(n + (IF late THEN 1 ELSE 0)) |->
     IF i <= n
     THEN Row("Chile", Midnight(i - 1), LongLevel(i, n, p, q), 0, 0,
              LongLevel(i, n, p, q), 30, 31)
     ELSE Row("US", Midnight(n), 1, 0, 0, 1, 10, 11)]
   : n \in LongLengths, p \in Deltas, q \in Deltas, late \in BOOLEAN}

\* Ranking tables: one row a country on day 0, country i with i \div 2 active
\* and as many recovered (so neighbours tie, and a file without the active
\* column ranks them the other way round), and a second row of the first
\* country.
RankNames ==
  <<"US", "France", "Chile", "Japan", "Australia", "Nigeria", "Antarctica",
    "Timor-Leste", "Atlantis", "Canada", "India", "Brazil", "Peru", "Russia">>
RankSizes == (TopN - 1)..(TopN + ExtraCountries)
RankTables ==
  {[i \in 1..(m + 1) |->
     IF i <= m
     THEN Row(RankNames[i], Midnight(0), 20, 1, i \div 2, i \div 2, 10 * i, 10 * i + 1)
     ELSE Row(RankNames[1], Midnight(0), 20, 1, extra, extra, NaN, NaN)]
   : m \in RankSizes, extra \in {0, TopN \div 2, TopN + ExtraCountries}}

\* The examples of the specification: a timeline [100, 150]; an end date
\* with confirmed [30, 70] and deaths [1, 2]; active [5, 5, 9] for one
\* country.  And a file whose rows carry a time of day: two reports on day 0.
ExampleTables ==
  {<<Row("Chile", Midnight(0), 100, 0, 0, 100, 30, 31),
     Row("Chile", Midnight(1), 150, 0, 0, 150, 30, 31)>>,
   <<Row("US", Midnight(0), 10, 0, 0, 10, 10, 11),
     Row("US", Midnight(1), 30, 1, 0, 29, 10, 11),
     Row("Chile", Midnight(1), 70, 2, 0, 68, 30, 31)>>,
   <<Row("US", Midnight(0), 5, 0, 0, 5, 10, 11),
     Row("US", Midnight(0), 5, 0, 0, 5, NaN, NaN),
     Row("US", Midnight(0), 9, 0, 0, 9, 20, 21)>>,
   <<Row("Chile", Midnight(0), 1, 0, 0, 1, 30, 31),
     Row("Chile", Midnight(0) + TicksPerDay - 1, 2, 0, 0, 2, 30, 31),
     Row("Chile", Midnight(1), 4, 0, 0, 4, 30, 31)>>}

Files ==
  RangeTables \cup ValueTables \cup GeoTables \cup LongTables \cup RankTables
  \cup ExampleTables

NoTotals == [defined |-> FALSE, rows |-> {}]

Init ==
  /\ pc = "load"
  /\ fileExists \in BOOLEAN
  /\ csv \in IF fileExists THEN Files ELSE {<<>>}
  /\ csvHasActive \in IF fileExists /\ csv \in RankTables THEN BOOLEAN ELSE {TRUE}
  /\ df = <<>>
  /\ selected_continents = {}
  /\ selected_countries = {}
  /\ start_date = 0
  /\ end_date = 0
  /\ df_filtered = <<>>
  /\ df_last_day = <<>>
  /\ kpi_confirmed = 0
  /\ kpi_deaths = 0
  /\ fatality_rate = <<0, 1>>
  /\ timeline = <<>>
  /\ country_totals = NoTotals
  /\ map_data = {}
  /\ growth_rate = <<0, 1>>
  /\ current_week_avg = NaNFrac
  /\ prev_week_avg = NaNFrac
  /\ rebound_ratio = <<0, 1>>
  /\ verdict = "none"
  /\ top_active = <<>>
  /\ out = <<>>
  /\ exception = "none"

-----------------------------------------------------------------------------
(* The sections of the script *)

Emit(element) == out' = Append(out, element)

\* lines 63-64: load_data() returns
LoadData ==
  /\ pc = "load"
  /\ fileExists
  /\ df' = load_data(csv, csvHasActive)
  /\ pc' = "title"
  /\ UNCHANGED <<fileExists, csvHasActive, csv, selected_continents,
                 selected_countries, start_date, end_date, df_filtered,
                 df_last_day, kpi_confirmed, kpi_deaths, fatality_rate,
                 timeline, country_totals, map_data, growth_rate,
                 current_week_avg, prev_week_avg, rebound_ratio, verdict,
                 top_active, out, exception>>

\* the handler without st.stop(): the script goes on to the title
LoadDataNotFoundNoStop ==
  /\ pc = "load"
  /\ ~fileExists
  /\ Emit("error_file_not_found")
  /\ pc' = "title"
  /\ UNCHANGED <<fileExists, csvHasActive, csv, df, selected_continents,
                 selected_countries, start_date, end_date, df_filtered,
                 df_last_day, kpi_confirmed, kpi_deaths, fatality_rate,
                 timeline, country_totals, map_data, growth_rate,
                 current_week_avg, prev_week_avg, rebound_ratio, verdict,
                 top_active, exception>>

\* lines 65-67: read_csv raises FileNotFoundError; st.error, st.stop
LoadDataNotFound ==
  /\ pc = "load"
  /\ ~fileExists
  /\ Emit("error_file_not_found")
  /\ pc' = "stopped"
  /\ UNCHANGED <<fileExists, csvHasActive, csv, df, selected_continents,
                 selected_countries, start_date, end_date, df_filtered,
                 df_last_day, kpi_confirmed, kpi_deaths, fatality_rate,
                 timeline, country_totals, map_data, growth_rate,
                 current_week_avg, prev_week_avg, rebound_ratio, verdict,
                 top_active, exception>>

\* lines 69-71
Title ==
  /\ pc = "title"
  /\ Emit("title")
  /\ pc' = "filters"
  /\ UNCHANGED <<fileExists, csvHasActive, csv, df, selected_continents,
                 selected_countries, start_date, end_date, df_filtered,
                 df_last_day, kpi_confirmed, kpi_deaths, fatality_rate,
                 timeline, country_totals, map_data, growth_rate,
                 current_week_avg, prev_week_avg, rebound_ratio, verdict,
                 top_active, exception>>

\* what a multiselect can return: a subset of its options
Picks(options) == {S \in SUBSET options : Cardinality(S) <= MaxSelected}

\* lines 73-91: the sidebar widgets return the user's selection
Filters ==
  /\ pc = "filters"
  /\ \E continents \in Picks(all_continents(df)) :
       \E countries \in Picks(filtered_countries(df, continents)) :
         \E start \in min_date(df)..max_date(df), end \in min_date(df)..max_date(df) :
           /\ start <= end
           /\ start <= min_date(df) + MaxTrim
           /\ end >= max_date(df) - MaxTrim
           /\ selected_continents' = continents
           /\ selected_countries' = countries
           /\ start_date' = start
           /\ end_date' = end
  /\ pc' = "filtrado"
  /\ UNCHANGED <<fileExists, csvHasActive, csv, df, df_filtered,
                 df_last_day, kpi_confirmed, kpi_deaths, fatality_rate,
                 timeline, country_totals, map_data, growth_rate,
                 current_week_avg, prev_week_avg, rebound_ratio, verdict,
                 top_active, out, exception>>

\* lines 93-100
Filtrado ==
  /\ pc = "filtrado"
  /\ df_filtered' = filter_frame(df, selected_continents, selected_countries,
                                 start_date, end_date)
  /\ pc' = "kpis"
  /\ UNCHANGED <<fileExists, csvHasActive, csv, df, selected_continents,
                 selected_countries, start_date, end_date,
                 df_last_day, kpi_confirmed, kpi_deaths, fatality_rate,
                 timeline, country_totals, map_data, growth_rate,
                 current_week_avg, prev_week_avg, rebound_ratio, verdict,
                 top_active, out, exception>>

\* lines 102-120
KPIs ==
  /\ pc = "kpis"
  /\ LET last == last_day(df_filtered, end_date)
         confirmed == kpi_sum(last, "confirmed")
         deaths == kpi_sum(last, "deaths")
     IN /\ df_last_day' = last
        /\ kpi_confirmed' = confirmed
        /\ kpi_deaths' = deaths
        /\ fatality_rate' = fatality(deaths, confirmed)
  /\ Emit("metrics")
  /\ pc' = "evolucion"
  /\ UNCHANGED <<fileExists, csvHasActive, csv, df, selected_continents,
                 selected_countries, start_date, end_date, df_filtered,
                 timeline, country_totals, map_data, growth_rate,
                 current_week_avg, prev_week_avg, rebound_ratio, verdict,
                 top_active, exception>>

\* lines 122-144
Evolucion ==
  /\ pc = "evolucion"
  /\ timeline' = groupby_file_date_sum(df_filtered)
  /\ Emit(IF timeline' # <<>> THEN "line_chart" ELSE "warning_no_data")
  /\ pc' = "mapa"
  /\ UNCHANGED <<fileExists, csvHasActive, csv, df, selected_continents,
                 selected_countries, start_date, end_date, df_filtered,
                 df_last_day, kpi_confirmed, kpi_deaths, fatality_rate,
                 country_totals, map_data, growth_rate,
                 current_week_avg, prev_week_avg, rebound_ratio, verdict,
                 top_active, exception>>

\* lines 146-155: country_totals is bound only when the end date has rows
CountryTotals ==
  /\ pc = "mapa"
  /\ country_totals' =
       IF df_last_day # <<>>
       THEN [defined |-> TRUE, rows |-> groupby_country_agg(df_last_day)]
       ELSE country_totals
  /\ pc' = "fix_coords"
  /\ UNCHANGED <<fileExists, csvHasActive, csv, df, selected_continents,
                 selected_countries, start_date, end_date, df_filtered,
                 df_last_day, kpi_confirmed, kpi_deaths, fatality_rate,
                 timeline, map_data, growth_rate,
                 current_week_avg, prev_week_avg, rebound_ratio, verdict,
                 top_active, out, exception>>

\* lines 170-184; line 170 reads country_totals, a NameError when unbound
FixCoords ==
  /\ pc = "fix_coords"
  /\ \/ /\ country_totals.defined
        /\ \E fixed \in apply_fix_coords(country_totals.rows, df_last_day) :
             /\ country_totals' = [country_totals EXCEPT !.rows = fixed]
             /\ map_data' = dropna(fixed)
        /\ Emit(IF map_data' # {} THEN "map" ELSE "info_no_geo")
        /\ pc' = "conclusion"
        /\ UNCHANGED exception
     \/ /\ ~country_totals.defined
        /\ exception' = "NameError"
        /\ pc' = "error"
        /\ UNCHANGED <<country_totals, map_data, out>>
  /\ UNCHANGED <<fileExists, csvHasActive, csv, df, selected_continents,
                 selected_countries, start_date, end_date, df_filtered,
                 df_last_day, kpi_confirmed, kpi_deaths, fatality_rate,
                 timeline, growth_rate,
                 current_week_avg, prev_week_avg, rebound_ratio, verdict,
                 top_active>>

\* lines 186-231
Conclusion ==
  /\ pc = "conclusion"
  /\ IF timeline # <<>> /\ Len(timeline) > 1
     THEN LET start_val == timeline[1].confirmed
              end_val == iloc_neg(timeline, 1).confirmed
              avg == rolling_mean(new_cases(Column(timeline, "confirmed")))
          IN /\ growth_rate' = growth(start_val, end_val)
             /\ IF enough_points(timeline)
                THEN LET current == iloc_neg(avg, 1)
                         prev == iloc_neg(avg, PrevOffset)
                     IN /\ current_week_avg' = current
                        /\ prev_week_avg' = prev
                        /\ rebound_ratio' = ratio(current, prev)
                        /\ verdict' = classify(rebound_ratio')
                        /\ out' = out \o <<"growth", verdict'>>
                ELSE /\ verdict' = "need_14_days"
                     /\ out' = out \o <<"growth", "need_14_days">>
                     /\ UNCHANGED <<current_week_avg, prev_week_avg,
                                    rebound_ratio>>
     ELSE /\ verdict' = "insufficient_data"
          /\ Emit("insufficient_data")
          /\ UNCHANGED <<growth_rate, current_week_avg, prev_week_avg,
                         rebound_ratio>>
  /\ pc' = "ranking"
  /\ UNCHANGED <<fileExists, csvHasActive, csv, df, selected_continents,
                 selected_countries, start_date, end_date, df_filtered,
                 df_last_day, kpi_confirmed, kpi_deaths, fatality_rate,
                 timeline, country_totals, map_data, top_active, exception>>

\* lines 233-249
Ranking ==
  /\ pc = "ranking"
  /\ IF df_last_day # <<>>
     THEN \E sorted \in sort_values_desc(groupby_country_active(df_last_day)) :
            /\ top_active' = head(sorted, TopN)
            /\ Emit(IF top_active' # <<>> THEN "bar_chart" ELSE "info_no_ranking")
     ELSE /\ Emit("info_no_ranking")
          /\ UNCHANGED top_active
  /\ pc' = "done"
  /\ UNCHANGED <<fileExists, csvHasActive, csv, df, selected_continents,
                 selected_countries, start_date, end_date, df_filtered,
                 df_last_day, kpi_confirmed, kpi_deaths, fatality_rate,
                 timeline, country_totals, map_data, growth_rate,
                 current_week_avg, prev_week_avg, rebound_ratio, verdict,
                 exception>>

Next ==
  \/ LoadData
  \/ LoadDataNotFound
  \/ Title
  \/ Filters
  \/ Filtrado
  \/ KPIs
  \/ Evolucion
  \/ CountryTotals
  \/ FixCoords
  \/ Conclusion
  \/ Ranking

Spec == Init /\ [][Next]_vars

-----------------------------------------------------------------------------
(* Properties *)

Loaded == pc \notin {"load", "stopped"}
Filtered == pc \in {"kpis", "evolucion", "mapa", "fix_coords", "conclusion",
                    "ranking", "done", "error"}
KpisDone == pc \in {"evolucion", "mapa", "fix_coords", "conclusion", "ranking",
                    "done", "error"}
Ended == pc \in {"done", "error", "stopped"}

\* the calendar day of a row, as the claims speak of it
DayOf(r) == r.file_date \div TicksPerDay

RECURSIVE SumOver(_, _, _)
\* the sum of column f over the rows of t at the positions in I
SumOver(t, I, f) ==
  IF I = {} THEN 0
  ELSE LET i == CHOOSE j \in I : TRUE IN t[i][f] + SumOver(t, I \ {i}, f)

EndDatePositions == {i \in 1..Len(df_filtered) : DayOf(df_filtered[i]) = end_date}

\* C1: whenever the selection leaves no row on the end date, the pass still
\* runs to its end: the map section finds country_totals bound, and the run
\* ends with no exception and with the KPI, timeline, map, narrative and
\* ranking views all written.
C1_EmptySelectionRenders ==
  /\ pc = "fix_coords" /\ df_last_day = <<>> => country_totals.defined
  /\ Ended /\ fileExists /\ df_last_day = <<>> =>
       /\ pc = "done"
       /\ exception = "none"
       /\ kpi_confirmed = 0 /\ kpi_deaths = 0 /\ fatality_rate[1] = 0
       /\ {"metrics", "info_no_geo", "info_no_ranking"} \subseteq Range(out)
       /\ timeline = <<>> =>
            {"warning_no_data", "insufficient_data"} \subseteq Range(out)

\* C2: with the file missing the run stops at the load: exactly one error
\* message is on the page, nothing else was written or computed, and no
\* section can run afterwards (the load is not entered again).
C2_MissingFileStops ==
  ~fileExists =>
    /\ pc \in {"load", "stopped"}
    /\ pc = "load" => out = <<>>
    /\ pc = "stopped" =>
         /\ out = <<"error_file_not_found">>
         /\ df = <<>> /\ df_filtered = <<>> /\ timeline = <<>>
         /\ ~country_totals.defined /\ verdict = "none" /\ top_active = <<>>
         /\ ~ENABLED Next

C2_Witness == ~fileExists /\ pc = "stopped" /\ Len(out) = 1

\* C3: the KPI totals are the sums of confirmed and of deaths over exactly the
\* filtered rows whose day is the end date; the fatality rate is
\* deaths / confirmed * 100, and 0 (not a division) when confirmed is 0;
\* confirmed [30, 70] with deaths [1, 2] give 100, 3 and 3 %.
C3_KpiTotals ==
  KpisDone =>
    /\ kpi_confirmed = SumOver(df_filtered, EndDatePositions, "confirmed")
    /\ kpi_deaths = SumOver(df_filtered, EndDatePositions, "deaths")
    /\ fatality_rate[2] # 0
    /\ kpi_confirmed # 0 => FracEq(fatality_rate, <<kpi_deaths * 100, kpi_confirmed>>)
    /\ kpi_confirmed = 0 => fatality_rate[1] = 0
    /\ (/\ {df_filtered[i].confirmed : i \in EndDatePositions} = {30, 70}
        /\ {df_filtered[i].deaths : i \in EndDatePositions} = {1, 2}
        /\ Cardinality(EndDatePositions) = 2)
       => kpi_confirmed = 100 /\ kpi_deaths = 3 /\ FracEq(fatality_rate, <<3, 1>>)

\* the example's end date, with a row of an earlier day of the range left out
C3_Witness ==
  /\ pc = "done"
  /\ kpi_confirmed = 100 /\ kpi_deaths = 3 /\ FracEq(fatality_rate, <<3, 1>>)
  /\ Len(df_filtered) = 3 /\ Cardinality(EndDatePositions) = 2

\* the rows of df the selection keeps, as the claim states it
C4_Matches(r) ==
  /\ start_date <= DayOf(r) /\ DayOf(r) <= end_date
  /\ selected_continents = {} \/ r.Continent \in selected_continents
  /\ selected_countries = {} \/ r.country_region \in selected_countries

\* C4: the filtered table is exactly the rows of the loaded table whose day
\* lies in [start, end] and whose continent and country are in the selected
\* sets (an empty set restricts nothing), in the table's order; filtering the
\* filtered table again by the same selection changes nothing.
C4_FilterExact ==
  Filtered =>
    /\ df_filtered = SelectSeq(df, C4_Matches)
    /\ filter_frame(df_filtered, selected_continents, selected_countries,
                    start_date, end_date) = df_filtered

\* a row late on the end date is kept, rows are dropped, a country is picked
C4_Witness ==
  /\ pc = "done"
  /\ \E i \in 1..Len(df_filtered) :
       /\ DayOf(df_filtered[i]) = end_date
       /\ df_filtered[i].file_date % TicksPerDay # 0
  /\ Len(df_filtered) < Len(df)
  /\ selected_countries # {}

NarrativeDone == pc \in {"ranking", "done"}
HasVerdict == verdict \in {"alert", "upward", "stable"}

\* day-over-day new confirmed cases at position i of the timeline
C5_NewCases(i) ==
  IF i = 1 THEN 0 ELSE timeline[i].confirmed - timeline[i - 1].confirmed

RECURSIVE C5_WeekSum(_, _)
\* the sum of the k new-case values that end at position i
C5_WeekSum(i, k) ==
  IF k = 0 THEN 0 ELSE C5_NewCases(i) + C5_WeekSum(i - 1, k - 1)

\* seven times the trailing mean at the last position and at position -8
C5_Current == C5_WeekSum(Len(timeline), 7)
C5_Previous == C5_WeekSum(Len(timeline) - 7, 7)

C5_Classified ==
  /\ verdict = "alert" <=> FracGT(rebound_ratio, <<12, 10>>)
  /\ verdict = "upward" <=>
       FracGT(rebound_ratio, <<1, 1>>) /\ ~FracGT(rebound_ratio, <<12, 10>>)
  /\ verdict = "stable" <=> ~FracGT(rebound_ratio, <<1, 1>>)

\* C5: on a timeline of at least 14 points the rebound ratio is the trailing
\* mean at the last position over the one at position -8, and 0 only when that
\* denominator is 0, decreasing timelines included; the verdict is alert above
\* 1.2, upward in (1.0, 1.2], stable at 1.0 or below.
C5_ReboundRatio ==
  NarrativeDone /\ Len(timeline) >= 14 =>
    /\ HasVerdict
    /\ C5_Previous = 0 => rebound_ratio[1] = 0
    /\ C5_Previous # 0 =>
         rebound_ratio[2] # 0
         /\ rebound_ratio[1] * C5_Previous = C5_Current * rebound_ratio[2]
    /\ C5_Classified

\* what the script does: the ratio is 0 whenever the denominator is not positive
C5_RatioZeroUnlessPositive ==
  NarrativeDone /\ Len(timeline) >= 14 =>
    /\ HasVerdict
    /\ C5_Previous <= 0 => rebound_ratio[1] = 0
    /\ C5_Previous > 0 =>
         rebound_ratio[2] # 0
         /\ rebound_ratio[1] * C5_Previous = C5_Current * rebound_ratio[2]
    /\ C5_Classified

C6_Days == {DayOf(df_filtered[i]) : i \in 1..Len(df_filtered)}
C6_DayPositions(d) == {i \in 1..Len(df_filtered) : DayOf(df_filtered[i]) = d}
C6_Start == SumOver(df_filtered, C6_DayPositions(SetMin(C6_Days)), "confirmed")
C6_End == SumOver(df_filtered, C6_DayPositions(SetMax(C6_Days)), "confirmed")

C6_Expected ==
  /\ growth_rate[2] # 0
  /\ C6_Start > 0 => FracEq(growth_rate, <<(C6_End - C6_Start) * 100, C6_Start>>)
  /\ C6_Start = 0 /\ C6_End = 0 => growth_rate[1] = 0
  /\ C6_Start = 0 /\ C6_End > 0 => FracEq(growth_rate, <<100, 1>>)

\* C6: a filtered table with at least two distinct dates gets a growth rate,
\* computed from the summed confirmed of its earliest and of its latest date:
\* (end - start) / start * 100, 0 when both are 0, 100 when only start is 0.
C6_GrowthRate ==
  pc \in {"ranking", "done", "error"} /\ Cardinality(C6_Days) >= 2 =>
    /\ "growth" \in Range(out)
    /\ C6_Expected

\* the same, of the runs that reach the narrative
C6_GrowthRateWhenNarrated ==
  NarrativeDone /\ Cardinality(C6_Days) >= 2 =>
    /\ "growth" \in Range(out)
    /\ C6_Expected

\* the end date's countries and a country's active values on the end date
C7_Countries == {df_filtered[i].country_region : i \in EndDatePositions}
C7_Actives(c) ==
  {df_filtered[i].active : i \in {j \in EndDatePositions :
                                    df_filtered[j].country_region = c}}
C7_Max(c) == CHOOSE m \in C7_Actives(c) : \A a \in C7_Actives(c) : a <= m
C7_Ranked == {top_active[i].country_region : i \in 1..Len(top_active)}

\* C7: the ranking lists countries of the end date, each at most once, with
\* the maximum of its active values there, in non-increasing order; it has
\* min(10, countries of the end date) entries and no country left out has a
\* larger maximum than one listed; active [5, 5, 9] ranks the country at 9.
C7_Ranking ==
  pc = "done" =>
    /\ \A i, j \in 1..Len(top_active) :
         i # j => top_active[i].country_region # top_active[j].country_region
    /\ \A i \in 1..Len(top_active) :
         /\ top_active[i].country_region \in C7_Countries
         /\ top_active[i].active = C7_Max(top_active[i].country_region)
    /\ \A i \in 1..(Len(top_active) - 1) :
         top_active[i].active >= top_active[i + 1].active
    /\ Len(top_active) = IF Cardinality(C7_Countries) < 10
                         THEN Cardinality(C7_Countries) ELSE 10
    /\ \A c \in C7_Countries \ C7_Ranked :
         \A i \in 1..Len(top_active) : C7_Max(c) <= top_active[i].active
    /\ \A c \in C7_Countries :
         C7_Actives(c) = {5, 9} /\ c \in C7_Ranked =>
           \E i \in 1..Len(top_active) :
             top_active[i].country_region = c /\ top_active[i].active = 9

\* more than ten countries, one of them with two rows of different active
C7_Witness ==
  /\ pc = "done"
  /\ Cardinality(C7_Countries) > 10
  /\ Len(top_active) = 10
  /\ \E i \in 1..Len(top_active) :
       Cardinality(C7_Actives(top_active[i].country_region)) = 2

\* names in and out of the lookup tables
C8_Names ==
  Range(RankNames) \cup
  {"", "zzz", "Chlie", "United States", "Korea, South", "Taiwan*",
   "United Kingdom", "Denmark", "Netherlands", "AN", "raise"}

\* C8: get_continent returns one of the seven labels for every name, and
\* every loaded row carries the label get_continent gives its country, so
\* rows of one country carry one label.
C8_ContinentTotal ==
  /\ \A n \in C8_Names : get_continent(n) \in ContinentLabels
  /\ Loaded =>
       /\ \A i \in 1..Len(df) :
            /\ df[i].Continent \in ContinentLabels
            /\ df[i].Continent = get_continent(df[i].country_region)
       /\ \A i, j \in 1..Len(df) :
            df[i].country_region = df[j].country_region
              => df[i].Continent = df[j].Continent

\* a name no table knows, one the second resolver rejects, one with a
\* continent code outside the six, and a country with two rows
C8_Witness ==
  /\ Loaded
  /\ \A n \in {"Atlantis", "Timor-Leste", "Antarctica"} :
       \E i \in 1..Len(df) :
         df[i].country_region = n /\ df[i].Continent = "Others"
  /\ \E i, j \in 1..Len(df) :
       i # j /\ df[i].country_region = "US" /\ df[j].country_region = "US"
       /\ df[i].Continent = "North America"

MapDone == pc \in {"conclusion", "ranking", "done"}
C9_Rows(c) == {df_filtered[i] : i \in {j \in EndDatePositions :
                                         df_filtered[j].country_region = c}}
C9_Top(c) == {r \in C9_Rows(c) : \A q \in C9_Rows(c) : q.confirmed <= r.confirmed}
C9_OnMap == {r.country_region : r \in map_data}

\* C9: a country of the override table is at the override coordinate whatever
\* its rows carry (US at 37.0902, -95.7129); any other country is at the
\* coordinate of a highest-confirmed row of the end date; a country whose
\* coordinate is missing is not on the map, yet its rows are in the KPI totals
\* and it is in the ranking.
C9_MapCoordinates ==
  MapDone =>
    /\ {r.country_region : r \in country_totals.rows} = C7_Countries
    /\ \A r \in country_totals.rows :
         /\ r.country_region = "US" => r.lat = 370902 /\ r.long_ = -957129
         /\ r.country_region = "France" => r.lat = 462276 /\ r.long_ = 22137
         /\ r.country_region \notin
              {"France", "United Kingdom", "Denmark", "Netherlands", "US",
               "United States"}
            => \E b \in C9_Top(r.country_region) :
                 r.lat = b.lat /\ r.long_ = b.long_
         /\ r.confirmed =
              SumOver(df_filtered, {i \in EndDatePositions :
                 df_filtered[i].country_region = r.country_region}, "confirmed")
    /\ \A r \in country_totals.rows :
         (r.lat = NaN \/ r.long_ = NaN) <=> r.country_region \notin C9_OnMap
    /\ map_data \subseteq country_totals.rows
    /\ kpi_confirmed = SumOver(df_filtered, EndDatePositions, "confirmed")
    /\ pc = "done" /\ Cardinality(C7_Countries) <= 10 => C7_Ranked = C7_Countries

\* US rows without coordinates on the map at the override, and a country off
\* the map for a missing coordinate but in the totals and the ranking
C9_Witness ==
  /\ pc = "done"
  /\ \E i \in EndDatePositions :
       df_filtered[i].country_region = "US" /\ df_filtered[i].lat = NaN
  /\ \A i \in EndDatePositions :
       df_filtered[i].country_region = "US" => df_filtered[i].lat # 370902
  /\ "US" \in C9_OnMap
  /\ "Chile" \in C7_Countries \ C9_OnMap
  /\ "Chile" \in C7_Ranked
  /\ kpi_confirmed > SumOver(df_filtered, {i \in EndDatePositions :
                       df_filtered[i].country_region = "US"}, "confirmed")

\* C10: a verdict is produced exactly when the timeline has at least 14
\* points; with fewer the narrative reports insufficient data and computes no
\* ratio; the two trailing means a verdict reads are defined values.
C10_VerdictGate ==
  pc \in {"ranking", "done", "error"} =>
    /\ HasVerdict <=> Len(timeline) >= 14
    /\ Len(timeline) < 14 /\ pc # "error" =>
         /\ verdict \in {"need_14_days", "insufficient_data"}
         /\ IsNaN(current_week_avg) /\ IsNaN(prev_week_avg)
    /\ HasVerdict => ~IsNaN(current_week_avg) /\ ~IsNaN(prev_week_avg)

\* the same, of the runs that reach the narrative
C10_VerdictGateWhenNarrated ==
  NarrativeDone =>
    /\ HasVerdict <=> Len(timeline) >= 14
    /\ Len(timeline) < 14 =>
         /\ verdict \in {"need_14_days", "insufficient_data"}
         /\ IsNaN(current_week_avg) /\ IsNaN(prev_week_avg)
    /\ HasVerdict => ~IsNaN(current_week_avg) /\ ~IsNaN(prev_week_avg)

====
